---- MODULE Spec2Model ----
(***************************************************************************)
(* Placement engine of simedc (src/lib/placement.py): the stripe-to-disk   *)
(* map built by Placement.__init__ and the data-loss queries answered on   *)
(* it.  A Placement object is constructed once (action New, the whole      *)
(* constructor) and then queried (check_data_loss, get_num_failed_status); *)
(* Return hands the result back to the caller.                             *)
(*                                                                         *)
(* Python lists are sequences; TLA+ sequences are 1-based, so list index i *)
(* is sequence index i+1.  Stripe ids, disk ids, rack ids, node ids and    *)
(* chunk positions keep their 0-based values.  The optional argument       *)
(* chunk_rack_config is None (the empty tuple) or Some(list) (a 1-tuple).  *)
(***************************************************************************)
EXTENDS Integers, Sequences, FiniteSets, TLC

VARIABLES
    args,                 \* the constructor's arguments (self.num_racks, ...)
    chunk_rack_config,    \* self.chunk_rack_config (DRC overwrites it)
    stripes_location,     \* self.stripes_location
    stripes_per_disk,     \* self.stripes_per_disk
    num_chunks_per_disk,  \* self.num_chunks_per_disk
    generated,            \* what generate_placement returned to __init__
    rng,                  \* state of the process-wide random module
    pc,                   \* "new", "built", or the exception __init__ raised
    op,                   \* the query last called ("none" once returned)
    failed_disks_list,    \* its argument
    ret,                  \* its result
    obj,                  \* the object the calls are made on
    disk,                 \* a Disk
    node,                 \* a Node
    now,                  \* curr_time of the last call that took one
    dop,                  \* the Disk or Node method last called
    was,                  \* the disk's state before that call
    unavail,              \* what get_unavail_time returned
    down,                 \* time the disk spent outside NORMAL since init_clock
    up,                   \* time the disk spent in NORMAL since init_clock
    clean,                \* init_clock was called on a NORMAL disk, and every
                          \* repair_disk since on a CRASHED one
    escalated,            \* since init_clock, fail_disk hit an UNAVAILABLE disk
    prog,                 \* a run of the main program of simedc.py
    wb                    \* a Weibull object and the result of the last call on it

placement_vars ==
    <<args, chunk_rack_config, stripes_location, stripes_per_disk,
      num_chunks_per_disk, generated, rng, pc, op, failed_disks_list, ret>>

device_vars ==
    <<obj, disk, node, now, dop, was, unavail, down, up, clean, escalated>>

tool_vars == <<prog, wb>>

vars == <<placement_vars, device_vars, tool_vars>>

-----------------------------------------------------------------------------
(* Bounds of the model *)

MaxStripes == 2
MaxFailed == 4
MaxListLen == 2
MaxSeed == 3
MaxTime == 3
MaxUnavail == 4
MaxX == 8
MaxArgs == 2

-----------------------------------------------------------------------------
(* Helpers *)

None == <<>>
Some(x) == <<x>>

Range(s) == {s[i] : i \in 1..Len(s)}

RECURSIVE SumSeq(_)
SumSeq(s) == IF s = <<>> THEN 0 ELSE s[1] + SumSeq(Tail(s))

RECURSIVE MaxSeq(_)
MaxSeq(s) == IF Len(s) = 1 THEN s[1]
             ELSE LET t == MaxSeq(Tail(s)) IN IF s[1] > t THEN s[1] ELSE t

MinOf(S) == CHOOSE x \in S : \A y \in S : x <= y

RECURSIVE Ascending(_)
Ascending(S) == IF S = {} THEN <<>>
                ELSE LET x == MinOf(S) IN <<x>> \o Ascending(S \ {x})

-----------------------------------------------------------------------------
(* The class constants *)

CODE_TYPE_RS == "Reed-Solomon Codes"
CODE_TYPE_LRC == "Locally Repairable Codes"
CODE_TYPE_DRC == "Double Regenerating Codes"
PLACE_TYPE_FLAT == "FLAT"
PLACE_TYPE_HIERARCHICAL == "HIERARCHICAL"

\* The hard-coded LRC schema; group gid is lrc_data_group[gid + 1].
lrc_data_group == << {0, 1, 2, 3, 4, 5}, {8, 9, 10, 11, 12, 13} >>
lrc_local_parity == <<6, 14>>
lrc_global_parity == {7, 15}

-----------------------------------------------------------------------------
(* The random module.  Its generator is a deterministic stream fixed by    *)
(* random.seed; the stream is an input of the model, one per seed, here a  *)
(* linear congruential stream.  randint and sample consume it as the       *)
(* library does: one draw per randint, one draw per sampled element.       *)

Seed(s) == (s * 7919 + 12345) % 65536

RngNext(g) == (g * 25173 + 13849) % 65536

\* the integer below r that state g yields (from the state's high bits)
RngBelow(g, r) == (g \div 256) % r

\* random.randint(a, b): a value of a..b and the generator's next state
randint(g, a, b) ==
    LET g2 == RngNext(g) IN [val |-> a + RngBelow(g2, b - a + 1), rng |-> g2]

\* random.sample(range(n), cnt), the pool algorithm: each pick is removed
\* from the pool by moving the pool's last live element into its slot.
RECURSIVE SamplePool(_, _, _, _, _)
SamplePool(g, pool, n, cnt, acc) ==
    IF Len(acc) = cnt THEN [val |-> acc, rng |-> g]
    ELSE LET i  == Len(acc)
             g2 == RngNext(g)
             j  == RngBelow(g2, n - i)
         IN SamplePool(g2, [pool EXCEPT ![j + 1] = pool[n - i]], n, cnt,
                       Append(acc, pool[j + 1]))

sample(g, n, cnt) == SamplePool(g, [i \in 1..n |-> i - 1], n, cnt, <<>>)

-----------------------------------------------------------------------------
(* Placement generation.  Operators take the constructor's arguments a and *)
(* the generator state g, and return the value with the generator's next   *)
(* state, [val, rng].  A result that is used twice is passed on as a       *)
(* parameter (the ...With operators).                                      *)

NumDisks(a) == a.num_racks * a.nodes_per_rack * a.disks_per_node

get_diff_racks(a, g, num_diff_racks) == sample(g, a.num_racks, num_diff_racks)

\* a faulty variant of NodesOfRack: the rack id added without the rack's size
NodesOfRackUnscaled(a, rack_id, s) ==
    [val |-> [i \in 1..Len(s.val) |-> s.val[i] + rack_id], rng |-> s.rng]

\* "nodes_list[i] += rack_id * self.nodes_per_rack" on the sample s
NodesOfRack(a, rack_id, s) ==
    [val |-> [i \in 1..Len(s.val) |-> s.val[i] + rack_id * a.nodes_per_rack],
     rng |-> s.rng]

get_diff_nodes(a, g, rack_id, num_diff_nodes) ==
    NodesOfRack(a, rack_id, sample(g, a.nodes_per_rack, num_diff_nodes))

\* a faulty variant of MinDisk: the rack's first node taken for its first disk
MinDiskOfNodes(a, rack_id) == rack_id * a.nodes_per_rack

\* the first and the last disk of a rack
MinDisk(a, rack_id) == rack_id * a.nodes_per_rack * a.disks_per_node
MaxDisk(a, rack_id) ==
    MinDisk(a, rack_id) + a.nodes_per_rack * a.disks_per_node - 1

get_disk_randomly(a, g, rack_id) ==
    IF MinDisk(a, rack_id) = MaxDisk(a, rack_id)
    THEN [val |-> MinDisk(a, rack_id), rng |-> g]
    ELSE randint(g, MinDisk(a, rack_id), MaxDisk(a, rack_id))

\* "each*self.disks_per_node + random.randint(0, self.disks_per_node-1)",
\* r the randint
DiskOfNode(a, each, r) == [val |-> each * a.disks_per_node + r.val, rng |-> r.rng]

\* the loop of get_diff_disks over nodes_list when disks_per_node > 1
RECURSIVE DisksOfNodes(_, _, _, _)
DisksOfNodesWith(a, nodes_list, disks_list, d) ==
    DisksOfNodes(a, d.rng, Tail(nodes_list), Append(disks_list, d.val))
DisksOfNodes(a, g, nodes_list, disks_list) ==
    IF nodes_list = <<>> THEN [val |-> disks_list, rng |-> g]
    ELSE DisksOfNodesWith(a, nodes_list, disks_list,
             DiskOfNode(a, nodes_list[1], randint(g, 0, a.disks_per_node - 1)))

GetDiffDisksWith(a, nodes_list) ==
    IF a.disks_per_node = 1 THEN nodes_list
    ELSE DisksOfNodes(a, nodes_list.rng, nodes_list.val, <<>>)

get_diff_disks(a, g, rack_id, num_diff_disks) ==
    GetDiffDisksWith(a, get_diff_nodes(a, g, rack_id, num_diff_disks))

\* FLAT: one disk of each rack of racks_list
RECURSIVE FlatDiskList(_, _, _, _)
FlatDiskListWith(a, racks_list, disk_list, d) ==
    FlatDiskList(a, d.rng, Tail(racks_list), Append(disk_list, d.val))
FlatDiskList(a, g, racks_list, disk_list) ==
    IF racks_list = <<>> THEN [val |-> disk_list, rng |-> g]
    ELSE FlatDiskListWith(a, racks_list, disk_list,
                          get_disk_randomly(a, g, racks_list[1]))

\* HIERARCHICAL: crc[i] disks of racks_list[i], from index i on
RECURSIVE HierDiskList(_, _, _, _, _, _)
HierDiskListWith(a, crc, racks_list, i, disk_list, d) ==
    HierDiskList(a, d.rng, crc, racks_list, i + 1, disk_list \o d.val)
HierDiskList(a, g, crc, racks_list, i, disk_list) ==
    IF i > Len(racks_list) THEN [val |-> disk_list, rng |-> g]
    ELSE HierDiskListWith(a, crc, racks_list, i, disk_list,
                          get_diff_disks(a, g, racks_list[i], crc[i]))

FlatStripeWith(a, racks_list) ==
    FlatDiskList(a, racks_list.rng, racks_list.val, <<>>)
FlatStripe(a, g) == FlatStripeWith(a, get_diff_racks(a, g, a.code_n))

HierStripeWith(a, crc, racks_list) ==
    HierDiskList(a, racks_list.rng, crc, racks_list.val, 1, <<>>)
HierStripe(a, g, crc) == HierStripeWith(a, crc, get_diff_racks(a, g, Len(crc)))

\* the loop "for stripe_id in xrange(self.num_stripes)" of the FLAT branch
RECURSIVE PlaceFlat(_, _, _)
PlaceFlatWith(a, locs, s) == PlaceFlat(a, s.rng, Append(locs, s.val))
PlaceFlat(a, g, locs) ==
    IF Len(locs) >= a.num_stripes THEN [val |-> locs, rng |-> g]
    ELSE PlaceFlatWith(a, locs, FlatStripe(a, g))

\* the same loop of the HIERARCHICAL branch
RECURSIVE PlaceHier(_, _, _, _)
PlaceHierWith(a, crc, locs, s) == PlaceHier(a, s.rng, crc, Append(locs, s.val))
PlaceHier(a, g, crc, locs) ==
    IF Len(locs) >= a.num_stripes THEN [val |-> locs, rng |-> g]
    ELSE PlaceHierWith(a, crc, locs, HierStripe(a, g, crc))

Placed(p) == [ok |-> TRUE, locs |-> p.val, rng |-> p.rng]

\* FLAT: "self.num_racks < self.n or disks_per_rack < 1"
FlatUnfit(a) == a.num_racks < a.code_n \/ a.disks_per_node * a.nodes_per_rack < 1

\* a faulty variant of HierUnfit: the topology is looked at only when there
\* is a stripe to place
HierUnfitWhenPlacing(a, c) ==
    a.num_stripes > 0 /\ (a.num_racks < Len(c) \/ a.nodes_per_rack < MaxSeq(c))

\* HIERARCHICAL: "self.num_racks < len(self.chunk_rack_config) or
\* self.nodes_per_rack < max(self.chunk_rack_config)"
HierUnfit(a, c) == a.num_racks < Len(c) \/ a.nodes_per_rack < MaxSeq(c)

\* generate_placement_ec with self.chunk_rack_config = c: whether it
\* succeeded, the stripes placed, the generator's next state
generate_placement_ec(a, g, c) ==
    IF a.place_type = PLACE_TYPE_FLAT THEN
        IF c = None THEN
            IF FlatUnfit(a)
            THEN [ok |-> FALSE, locs |-> <<>>, rng |-> g]
            ELSE Placed(PlaceFlat(a, g, <<>>))
        ELSE [ok |-> FALSE, locs |-> <<>>, rng |-> g]
    ELSE IF a.place_type = PLACE_TYPE_HIERARCHICAL THEN
        IF c = None THEN [ok |-> FALSE, locs |-> <<>>, rng |-> g]
        ELSE IF HierUnfit(a, c[1])
             THEN [ok |-> FALSE, locs |-> <<>>, rng |-> g]
             ELSE Placed(PlaceHier(a, g, c[1], <<>>))
    ELSE [ok |-> FALSE, locs |-> <<>>, rng |-> g]

\* the result of generate_placement: p with self.chunk_rack_config as the
\* call leaves it
WithConfig(p, crc) == [ok |-> p.ok, locs |-> p.locs, rng |-> p.rng, crc |-> crc]

Rejected(a, g) ==
    [ok |-> FALSE, locs |-> <<>>, rng |-> g, crc |-> a.chunk_rack_config]

\* generate_placement: the gates of each code type, then the placement
generate_placement(a, g) ==
    IF a.code_type = CODE_TYPE_RS \/ a.code_type = CODE_TYPE_LRC THEN
        IF a.code_k < 1 \/ a.code_n <= a.code_k THEN Rejected(a, g)
        ELSE IF a.code_free < 0 \/ a.code_n <= a.code_free THEN Rejected(a, g)
        ELSE IF a.code_type = CODE_TYPE_LRC /\ a.code_l = 0 THEN Rejected(a, g)
        ELSE WithConfig(generate_placement_ec(a, g, a.chunk_rack_config),
                        a.chunk_rack_config)
    ELSE IF a.code_type = CODE_TYPE_DRC THEN
        IF a.code_n = 9 /\ (a.code_k = 6 \/ a.code_k = 5)
        THEN WithConfig(generate_placement_ec(a, g, Some(<<3, 3, 3>>)),
                        Some(<<3, 3, 3>>))
        ELSE Rejected(a, g)
    ELSE Rejected(a, g)

\* a faulty variant of StripesOn: only a stripe's first disk records the stripe
StripesOnFirstDisk(locs, disk_id) ==
    LET RECURSIVE Walk(_, _)
        Walk(s, acc) ==
            IF s > Len(locs) THEN acc
            ELSE IF locs[s] # <<>> /\ locs[s][1] = disk_id
                 THEN Walk(s + 1, Append(acc, s - 1))
                 ELSE Walk(s + 1, acc)
    IN Walk(1, <<>>)

\* the stripe ids appended to stripes_per_disk[disk_id], in stripe order
StripesOn(locs, disk_id) ==
    LET RECURSIVE Walk(_, _)
        Walk(s, acc) ==
            IF s > Len(locs) THEN acc
            ELSE LET hits == SelectSeq(locs[s], LAMBDA d : d = disk_id)
                 IN Walk(s + 1, acc \o [i \in 1..Len(hits) |-> s - 1])
    IN Walk(1, <<>>)

\* generate_num_chunks_per_disk: raises IndexError when fewer than
\* num_stripes stripes were placed (nothing is appended before it raises,
\* the first index being the missing one)
generate_num_chunks_per_disk(a, locs) ==
    IF Len(locs) < a.num_stripes
    THEN [exc |-> "IndexError",
          stripes_per_disk |-> [d \in 0..NumDisks(a) - 1 |-> <<>>],
          num_chunks_per_disk |-> [d \in 0..NumDisks(a) - 1 |-> 0]]
    ELSE [exc |-> "",
          stripes_per_disk |-> [d \in 0..NumDisks(a) - 1 |-> StripesOn(locs, d)],
          num_chunks_per_disk |->
              [d \in 0..NumDisks(a) - 1 |-> Len(StripesOn(locs, d))]]

-----------------------------------------------------------------------------
(* The queries.  They read the object's attributes (the state variables).  *)
(* A result is a record: exc names the exception raised ("" when the call  *)
(* returned), loss is check_data_loss's boolean, status is                 *)
(* get_num_failed_status's pair, list and num are the getters' results.    *)

RetLoss(b) ==
    [exc |-> "", loss |-> b, status |-> <<0, 0>>, list |-> <<>>, num |-> 0]
RetStatus(nfs, nlc) ==
    [exc |-> "", loss |-> FALSE, status |-> <<nfs, nlc>>, list |-> <<>>, num |-> 0]
RetRaise(e) ==
    [exc |-> e, loss |-> FALSE, status |-> <<0, 0>>, list |-> <<>>, num |-> 0]
RetList(l) ==
    [exc |-> "", loss |-> FALSE, status |-> <<0, 0>>, list |-> l, num |-> 0]
RetNum(x) ==
    [exc |-> "", loss |-> FALSE, status |-> <<0, 0>>, list |-> <<>>, num |-> x]
NoRet == RetLoss(FALSE)

\* Python's index i into a list of length len: the position counted from 1
\* (a negative i counts from the end), 0 when the read raises IndexError
ListIndex(len, i) ==
    IF 0 <= i /\ i < len THEN i + 1
    ELSE IF -len <= i /\ i < 0 THEN len + i + 1
    ELSE 0

\* get_stripe_location: an id outside 0..num_stripes-1 is logged, then read
get_stripe_location(stripe_id) ==
    IF ListIndex(Len(stripes_location), stripe_id) = 0 THEN RetRaise("IndexError")
    ELSE RetList(stripes_location[ListIndex(Len(stripes_location), stripe_id)])

\* get_stripes_to_repair for any integer: an id outside 0..num_disks-1 is
\* logged, then read
StripesToRepairAt(failed_disk_id) ==
    IF ListIndex(NumDisks(args), failed_disk_id) = 0 THEN RetRaise("IndexError")
    ELSE RetList(stripes_per_disk[ListIndex(NumDisks(args), failed_disk_id) - 1])

get_num_stripes_to_repair(failed_disk_id) ==
    IF ListIndex(NumDisks(args), failed_disk_id) = 0 THEN RetRaise("IndexError")
    ELSE RetNum(Len(stripes_per_disk[ListIndex(NumDisks(args), failed_disk_id) - 1]))

\* get_stripes_to_repair, for a disk id of 0..num_disks-1
get_stripes_to_repair(failed_disk_id) == stripes_per_disk[failed_disk_id]

\* a faulty variant of Gathered: the list of the first failed disk is taken
\* as it is and extended in place with the next disk's
GatheredInPlace(list) ==
    IF Len(list) < 2 THEN stripes_per_disk
    ELSE [stripes_per_disk EXCEPT ![list[1]] = @ \o stripes_per_disk[list[2]]]

\* the reverse index after "stripe_id_set = []" and "stripe_id_set +=
\* self.get_stripes_to_repair(failed_disk)": the lists of the index are
\* added to a new list, none of them is changed
Gathered(list) == stripes_per_disk

\* stripe_id_set: the stripes on the disks of the list
StripeIdSet(list) == UNION {Range(get_stripes_to_repair(d)) : d \in Range(list)}

\* the number of chunk positions of a stripe that lie on failed disks
FailedChunks(loc, failed_disks_set) ==
    Cardinality({i \in 1..Len(loc) : loc[i] \in failed_disks_set})

\* a faulty variant of RSStripeLost: m failed chunks already count as a loss
RSStripeLostAtM(loc, failed_disks_set) ==
    FailedChunks(loc, failed_disks_set) >= args.code_n - args.code_k

\* RS and DRC, check_data_loss: the stripe is lost
RSStripeLost(loc, failed_disks_set) ==
    FailedChunks(loc, failed_disks_set) > args.code_n - args.code_k

\* RS and DRC, get_num_failed_status: the stripe is counted as failed
RSStripeFailed(loc, failed_disks_set) ==
    FailedChunks(loc, failed_disks_set) > args.code_n - args.code_k

\* LRC, a failed data chunk: "for gid in xrange(self.l): if idx in
\* self.lrc_data_group[gid]".  The gid found, -1 when the loop ends without
\* one, -2 when lrc_data_group[gid] raises IndexError.
RECURSIVE DataGroupOf(_, _, _)
DataGroupOf(idx, gid, l) ==
    IF gid >= l THEN -1
    ELSE IF gid >= Len(lrc_data_group) THEN -2
    ELSE IF idx \in lrc_data_group[gid + 1] THEN gid
    ELSE DataGroupOf(idx, gid + 1, l)

\* LRC, an intact chunk: "for gid in xrange(self.l): if idx ==
\* self.lrc_local_parity[gid] and stripe_failed_disks_num[gid] > 0".
\* Same result codes; lrc_local_parity[gid] is read first.
RECURSIVE LocalParityOf(_, _, _, _)
LocalParityOf(idx, gid, l, cnt) ==
    IF gid >= l THEN -1
    ELSE IF gid >= Len(lrc_local_parity) THEN -2
    ELSE IF idx = lrc_local_parity[gid + 1] /\ cnt[gid + 1] > 0 THEN gid
    ELSE LocalParityOf(idx, gid + 1, l, cnt)

\* LRC: the walk over the positions of a stripe from idx on;
\* w = [cnt: stripe_failed_disks_num, glob: global_failed_disks_num, exc]
RECURSIVE LrcWalk(_, _, _, _)
LrcWalk(loc, failed_disks_set, idx, w) ==
    IF idx >= Len(loc) \/ w.exc # "" THEN w
    ELSE IF loc[idx + 1] \in failed_disks_set THEN
        IF idx \in lrc_global_parity
        THEN LrcWalk(loc, failed_disks_set, idx + 1, [w EXCEPT !.glob = @ + 1])
        ELSE IF idx \notin Range(lrc_local_parity) THEN
            LET gid == DataGroupOf(idx, 0, args.code_l)
            IN IF gid = -2 THEN [w EXCEPT !.exc = "IndexError"]
               ELSE IF gid = -1 THEN LrcWalk(loc, failed_disks_set, idx + 1, w)
               ELSE LrcWalk(loc, failed_disks_set, idx + 1,
                            [w EXCEPT !.cnt[gid + 1] = @ + 1])
        ELSE LrcWalk(loc, failed_disks_set, idx + 1, w)
    ELSE
        LET gid == LocalParityOf(idx, 0, args.code_l, w.cnt)
        IN IF gid = -2 THEN [w EXCEPT !.exc = "IndexError"]
           ELSE IF gid = -1 THEN LrcWalk(loc, failed_disks_set, idx + 1, w)
           ELSE LrcWalk(loc, failed_disks_set, idx + 1,
                        [w EXCEPT !.cnt[gid + 1] = @ - 1])

\* LRC: the walk of a whole stripe, from [0] * self.l and 0
LrcStripeWalk(loc, failed_disks_set) ==
    LrcWalk(loc, failed_disks_set, 0,
            [cnt |-> [g \in 1..args.code_l |-> 0], glob |-> 0, exc |-> ""])

\* a faulty variant of LrcLost: the local groups are not taken off the bound
LrcLostNoGroups(w) == w.glob + SumSeq(w.cnt) > args.code_n - args.code_k

\* LRC: "sum > (self.n - self.k - self.l)"
LrcLost(w) == w.glob + SumSeq(w.cnt) > args.code_n - args.code_k - args.code_l

\* check_data_loss, LRC branch, over the stripes ids (a set of small
\* integers is iterated in ascending order)
RECURSIVE CheckLossLrc(_, _)
CheckLossLrcWith(ids, failed_disks_set, s, w) ==
    IF w.exc # "" THEN RetRaise(w.exc)
    ELSE IF LrcLost(w) THEN RetLoss(TRUE)
    ELSE CheckLossLrc(ids \ {s}, failed_disks_set)
CheckLossLrc(ids, failed_disks_set) ==
    IF ids = {} THEN RetLoss(FALSE)
    ELSE CheckLossLrcWith(ids, failed_disks_set, MinOf(ids),
             LrcStripeWalk(stripes_location[MinOf(ids) + 1], failed_disks_set))

\* check_data_loss, RS and DRC branch
CheckLossRs(ids, failed_disks_set) ==
    RetLoss(\E s \in ids : RSStripeLost(stripes_location[s + 1], failed_disks_set))

check_data_loss(list) ==
    IF args.code_type = CODE_TYPE_LRC
    THEN CheckLossLrc(StripeIdSet(list), Range(list))
    ELSE CheckLossRs(StripeIdSet(list), Range(list))

\* get_num_failed_status, LRC branch (nfs, nlc: num_failed_stripes and
\* num_lost_chunks so far)
RECURSIVE FailedStatusLrc(_, _, _, _)
FailedStatusLrcWith(ids, failed_disks_set, nfs, nlc, s, w) ==
    IF w.exc # "" THEN RetRaise(w.exc)
    ELSE IF LrcLost(w)
    THEN FailedStatusLrc(ids \ {s}, failed_disks_set, nfs + 1,
             nlc + FailedChunks(stripes_location[s + 1], failed_disks_set))
    ELSE FailedStatusLrc(ids \ {s}, failed_disks_set, nfs, nlc)
FailedStatusLrc(ids, failed_disks_set, num_failed_stripes, num_lost_chunks) ==
    IF ids = {} THEN RetStatus(num_failed_stripes, num_lost_chunks)
    ELSE FailedStatusLrcWith(ids, failed_disks_set, num_failed_stripes,
             num_lost_chunks, MinOf(ids),
             LrcStripeWalk(stripes_location[MinOf(ids) + 1], failed_disks_set))

\* get_num_failed_status, RS and DRC branch
RECURSIVE FailedStatusRs(_, _, _, _)
FailedStatusRs(ids, failed_disks_set, num_failed_stripes, num_lost_chunks) ==
    IF ids = {} THEN RetStatus(num_failed_stripes, num_lost_chunks)
    ELSE LET s == MinOf(ids)
             loc == stripes_location[s + 1]
         IN IF RSStripeFailed(loc, failed_disks_set)
            THEN FailedStatusRs(ids \ {s}, failed_disks_set,
                     num_failed_stripes + 1,
                     num_lost_chunks + FailedChunks(loc, failed_disks_set))
            ELSE FailedStatusRs(ids \ {s}, failed_disks_set,
                     num_failed_stripes, num_lost_chunks)

get_num_failed_status(list) ==
    IF Len(list) = 0 THEN RetStatus(0, 0)
    ELSE IF args.code_type = CODE_TYPE_LRC
    THEN FailedStatusLrc(StripeIdSet(list), Range(list), 0, 0)
    ELSE FailedStatusRs(StripeIdSet(list), Range(list), 0, 0)

-----------------------------------------------------------------------------
(* Inputs *)

Cfg(t, ns, ct, n, k, l, pt, crc) ==
    [num_racks |-> t[1], nodes_per_rack |-> t[2], disks_per_node |-> t[3],
     num_stripes |-> ns, code_type |-> ct, code_n |-> n, code_k |-> k,
     code_free |-> 0, place_type |-> pt, chunk_rack_config |-> crc,
     code_l |-> l]

\* (num_racks, nodes_per_rack, disks_per_node)
SmallTopologies == {<<3, 2, 1>>, <<3, 1, 2>>, <<2, 2, 2>>, <<3, 3, 1>>}

\* (place_type, chunk_rack_config): configs whose entries add up to n or
\* not, one of them with a rack that is given no chunk
PlaceChoices ==
    {<<PLACE_TYPE_FLAT, None>>, <<PLACE_TYPE_FLAT, Some(<<1, 1>>)>>,
     <<PLACE_TYPE_HIERARCHICAL, None>>}
    \cup {<<PLACE_TYPE_HIERARCHICAL, Some(c)>> :
            c \in {<<1, 1>>, <<2, 1>>, <<1, 2>>, <<1, 1, 1>>, <<3>>, <<2, 0, 1>>}}

RSConfigs ==
    {Cfg(t, ns, CODE_TYPE_RS, nk[1], nk[2], 0, p[1], p[2]) :
        t \in SmallTopologies, ns \in 0..MaxStripes,
        nk \in {<<2, 1>>, <<3, 1>>, <<3, 2>>}, p \in PlaceChoices}

\* LRC stripes of 8 chunks: data group 0, its local parity, a global parity
LRC8Configs ==
    {Cfg(<<2, 4, 1>>, ns, CODE_TYPE_LRC, 8, kl[1], kl[2],
         PLACE_TYPE_HIERARCHICAL, Some(<<4, 4>>)) :
        ns \in 0..MaxStripes,
        kl \in {<<5, 1>>, <<6, 2>>, <<7, 2>>, <<6, -1>>, <<6, 0>>}}

DRCConfigs ==
    {Cfg(t, ns, CODE_TYPE_DRC, 9, k, 0, p[1], p[2]) :
        t \in {<<3, 3, 1>>, <<2, 3, 1>>}, ns \in 0..MaxStripes, k \in {5, 6},
        p \in {<<PLACE_TYPE_FLAT, None>>, <<PLACE_TYPE_HIERARCHICAL, None>>,
               <<PLACE_TYPE_HIERARCHICAL, Some(<<2, 1>>)>>}}

\* the configuration c with code_free = f
WithFree(c, f) == [c EXCEPT !.code_free = f]

\* configurations at and around the gates of generate_placement: n <= k,
\* k < 1, code_free outside 0..n-1, DRC codes other than (9,5) and (9,6)
GateConfigs ==
    {WithFree(Cfg(<<3, 3, 1>>, ns, CODE_TYPE_RS, 2, k, 0, PLACE_TYPE_FLAT, None), f) :
        ns \in 0..1, k \in 0..3, f \in {-1, 0, 1, 2}}
    \cup {WithFree(Cfg(<<2, 4, 1>>, ns, CODE_TYPE_LRC, 8, k, 1,
                       PLACE_TYPE_HIERARCHICAL, Some(<<4, 4>>)), f) :
            ns \in 0..1, k \in {0, 8}, f \in {-1, 0, 8}}
    \cup {WithFree(Cfg(<<3, 3, 1>>, ns, CODE_TYPE_DRC, nk[1], nk[2], 0,
                       PLACE_TYPE_HIERARCHICAL, None), f) :
            ns \in 0..1, f \in {-1, 0, 9},
            nk \in {<<9, 5>>, <<9, 6>>, <<9, 4>>, <<9, 7>>, <<8, 5>>, <<9, 9>>, <<9, 0>>}}

\* LRC(16, k, l) on 16 racks of one disk, a single stripe
LRC16Configs ==
    {Cfg(<<16, 1, 1>>, 1, CODE_TYPE_LRC, 16, kl[1], kl[2], PLACE_TYPE_FLAT, None) :
        kl \in {<<10, 2>>, <<12, 2>>, <<12, 3>>}}

Disks == 0..NumDisks(args) - 1

\* LRC(8, 4, 3) on 2 racks of 8 disks, each stripe within one rack
LRC8L3Configs ==
    {Cfg(<<2, 8, 1>>, ns, CODE_TYPE_LRC, 8, 4, 3,
         PLACE_TYPE_HIERARCHICAL, Some(<<8>>)) : ns \in 1..MaxStripes}

\* the failed-disk lists a query is called with: every list of at most
\* MaxListLen disks (any order, repeats allowed), every set of at most
\* MaxFailed disks in ascending order, and every disk of one stripe, alone
\* or with one more disk
FailedLists ==
    UNION {[1..len -> Disks] : len \in 0..MaxListLen}
    \cup {Ascending(S) : S \in {T \in SUBSET Disks : Cardinality(T) <= MaxFailed}}
    \cup {Ascending(Range(stripes_location[s]) \cup {d}) :
            s \in 1..Len(stripes_location), d \in Disks}

-----------------------------------------------------------------------------
(* The state machine *)

(* Disk and Node of smp_data_structures.py.  A disk or a node is a record  *)
(* of the attributes its methods touch; times are integers.                *)

STATE_NORMAL == "state normal"
STATE_UNAVAILABLE == "state unavailable"
STATE_CRASHED == "state crashed"

STATE_NODE_NORMAL == "node is normal"
STATE_NODE_UNAVAILABLE == "node is unavailable"
STATE_NODE_CRASHED == "node is crashed"

\* Disk.__init__
NewDisk ==
    [state |-> STATE_NORMAL, unavail_start |-> 0, unavail_clock |-> 0,
     last_time_update |-> 0, begin_time |-> 0, clock |-> 0,
     repair_clock |-> 0, repair_start |-> 0]

\* Node.__init__
NewNode ==
    [state |-> STATE_NODE_NORMAL, last_time_update |-> 0, begin_time |-> 0,
     clock |-> 0, repair_clock |-> 0, repair_start |-> 0]

\* Disk.init_clock
disk_init_clock(d, curr_time) ==
    [d EXCEPT !.unavail_start = 0, !.unavail_clock = 0,
              !.last_time_update = curr_time, !.begin_time = curr_time,
              !.clock = 0, !.repair_clock = 0, !.repair_start = 0]

\* Disk.init_state
disk_init_state(d) == [d EXCEPT !.state = STATE_NORMAL]

\* a faulty variant of disk_update_clock: the repair clock runs in every state
disk_update_clock_any(d, curr_time) ==
    [d EXCEPT !.clock = @ + (curr_time - d.last_time_update),
              !.repair_clock = curr_time - d.repair_start,
              !.last_time_update = curr_time]

\* Disk.update_clock
disk_update_clock(d, curr_time) ==
    [d EXCEPT !.clock = @ + (curr_time - d.last_time_update),
              !.repair_clock = IF d.state = STATE_CRASHED
                               THEN curr_time - d.repair_start ELSE 0,
              !.last_time_update = curr_time]

\* a faulty variant of fail_disk: the unavailable interval restarts at the
\* failure whatever the state
fail_disk_restart(d, curr_time) ==
    [d EXCEPT !.unavail_start = curr_time,
              !.state = STATE_CRASHED, !.repair_clock = 0,
              !.repair_start = curr_time]

\* Disk.fail_disk
fail_disk(d, curr_time) ==
    [d EXCEPT !.unavail_start = IF d.state = STATE_NORMAL THEN curr_time ELSE @,
              !.state = STATE_CRASHED, !.repair_clock = 0,
              !.repair_start = curr_time]

\* Disk.repair_disk
repair_disk(d, curr_time) ==
    [d EXCEPT !.state = STATE_NORMAL,
              !.unavail_clock = @ + (curr_time - d.unavail_start),
              !.begin_time = d.last_time_update,
              !.clock = 0, !.repair_clock = 0]

\* a faulty variant of offline_disk: the disk goes offline whatever its state
offline_disk_any(d, curr_time) ==
    [d EXCEPT !.state = STATE_UNAVAILABLE, !.unavail_start = curr_time]

\* Disk.offline_disk
offline_disk(d, curr_time) ==
    IF d.state = STATE_NORMAL
    THEN [d EXCEPT !.state = STATE_UNAVAILABLE, !.unavail_start = curr_time]
    ELSE d

\* Disk.online_disk
online_disk(d, curr_time) ==
    IF d.state = STATE_UNAVAILABLE
    THEN [d EXCEPT !.state = STATE_NORMAL,
                   !.unavail_clock = @ + (curr_time - d.unavail_start)]
    ELSE d

\* Disk.get_unavail_time
get_unavail_time(d, curr_time) ==
    IF d.state = STATE_NORMAL THEN d.unavail_clock
    ELSE d.unavail_clock + (curr_time - d.unavail_start)

\* Node.init_clock
node_init_clock(n, curr_time) ==
    [n EXCEPT !.last_time_update = curr_time, !.begin_time = curr_time,
              !.clock = 0, !.repair_clock = 0, !.repair_start = 0]

\* Node.init_state
node_init_state(n) == [n EXCEPT !.state = STATE_NODE_NORMAL]

\* Node.update_clock
node_update_clock(n, curr_time) ==
    [n EXCEPT !.clock = @ + (curr_time - n.last_time_update),
              !.repair_clock = IF n.state = STATE_NODE_CRASHED
                               THEN curr_time - n.repair_start ELSE 0,
              !.last_time_update = curr_time]

\* Node.fail_node
fail_node(n, curr_time) ==
    [n EXCEPT !.state = STATE_NODE_CRASHED, !.repair_clock = 0,
              !.repair_start = curr_time]

\* a faulty variant of repair_node: begin_time is left as it was
repair_node_stale(n) ==
    [n EXCEPT !.clock = 0, !.repair_clock = 0, !.state = STATE_NODE_NORMAL]

\* Node.repair_node
repair_node(n) ==
    [n EXCEPT !.begin_time = n.last_time_update, !.clock = 0,
              !.repair_clock = 0, !.state = STATE_NODE_NORMAL]

\* Node.offline_node
offline_node(n) ==
    IF n.state = STATE_NODE_NORMAL
    THEN [n EXCEPT !.state = STATE_NODE_UNAVAILABLE] ELSE n

\* a faulty variant of online_node: the node comes back whatever its state
online_node_any(n) == [n EXCEPT !.state = STATE_NODE_NORMAL]

\* Node.online_node
online_node(n) ==
    IF n.state = STATE_NODE_UNAVAILABLE
    THEN [n EXCEPT !.state = STATE_NODE_NORMAL] ELSE n

\* a disk and a node as their constructors leave them, no call made yet
Constructed ==
    /\ disk = NewDisk
    /\ node = NewNode
    /\ now = 0
    /\ dop = "none"
    /\ was = STATE_NORMAL
    /\ unavail = 0
    /\ down = 0
    /\ up = 0
    /\ clean = FALSE
    /\ escalated = FALSE

\* the main program is not run and no Weibull object is made
Idle == prog = [pc |-> "none"] /\ wb = None

\* random.seed(rseed), then Placement(...) is about to be called
InitWith(configs) ==
    /\ args \in configs
    /\ \E seed \in 0..MaxSeed : rng = Seed(seed)
    /\ chunk_rack_config = None
    /\ stripes_location = <<>>
    /\ stripes_per_disk = <<>>
    /\ num_chunks_per_disk = <<>>
    /\ generated = FALSE
    /\ pc = "new"
    /\ op = "none"
    /\ failed_disks_list = <<>>
    /\ ret = NoRet
    /\ obj = "placement"
    /\ Constructed
    /\ Idle

\* the attributes generate_num_chunks_per_disk leaves, and how __init__ ends
Counted(c) ==
    /\ stripes_per_disk' = c.stripes_per_disk
    /\ num_chunks_per_disk' = c.num_chunks_per_disk
    /\ pc' = IF c.exc = "" THEN "built" ELSE c.exc

\* the attributes generate_placement leaves, then the count
Generated(p) ==
    /\ chunk_rack_config' = p.crc
    /\ stripes_location' = p.locs
    /\ generated' = p.ok
    /\ rng' = p.rng
    /\ Counted(generate_num_chunks_per_disk(args, p.locs))

\* Placement.__init__
New ==
    /\ pc = "new"
    /\ Generated(generate_placement(args, rng))
    /\ UNCHANGED <<args, op, failed_disks_list, ret>>
    /\ UNCHANGED <<device_vars, tool_vars>>

CheckDataLoss ==
    /\ pc = "built" /\ op = "none"
    /\ \E list \in FailedLists :
          /\ failed_disks_list' = list
          /\ ret' = check_data_loss(list)
          /\ stripes_per_disk' = Gathered(list)
    /\ op' = "check_data_loss"
    /\ UNCHANGED <<args, chunk_rack_config, stripes_location,
                   num_chunks_per_disk, generated, rng, pc>>
    /\ UNCHANGED <<device_vars, tool_vars>>

GetNumFailedStatus ==
    /\ pc = "built" /\ op = "none"
    /\ \E list \in FailedLists :
          /\ failed_disks_list' = list
          /\ ret' = get_num_failed_status(list)
          /\ stripes_per_disk' = Gathered(list)
    /\ op' = "get_num_failed_status"
    /\ UNCHANGED <<args, chunk_rack_config, stripes_location,
                   num_chunks_per_disk, generated, rng, pc>>
    /\ UNCHANGED <<device_vars, tool_vars>>

\* the getters, called with ids in and just outside the valid range
GetStripeLocation ==
    /\ pc = "built" /\ op = "none"
    /\ \E stripe_id \in -1..MaxStripes : ret' = get_stripe_location(stripe_id)
    /\ op' = "get_stripe_location"
    /\ UNCHANGED <<args, chunk_rack_config, stripes_location, stripes_per_disk,
                   num_chunks_per_disk, generated, rng, pc, failed_disks_list>>
    /\ UNCHANGED <<device_vars, tool_vars>>

GetStripesToRepair ==
    /\ pc = "built" /\ op = "none"
    /\ \E failed_disk_id \in -1..NumDisks(args) :
          ret' = StripesToRepairAt(failed_disk_id)
    /\ op' = "get_stripes_to_repair"
    /\ UNCHANGED <<args, chunk_rack_config, stripes_location, stripes_per_disk,
                   num_chunks_per_disk, generated, rng, pc, failed_disks_list>>
    /\ UNCHANGED <<device_vars, tool_vars>>

GetNumStripesToRepair ==
    /\ pc = "built" /\ op = "none"
    /\ \E failed_disk_id \in -1..NumDisks(args) :
          ret' = get_num_stripes_to_repair(failed_disk_id)
    /\ op' = "get_num_stripes_to_repair"
    /\ UNCHANGED <<args, chunk_rack_config, stripes_location, stripes_per_disk,
                   num_chunks_per_disk, generated, rng, pc, failed_disks_list>>
    /\ UNCHANGED <<device_vars, tool_vars>>

\* the caller takes the result (or catches the exception) and goes on
Return ==
    /\ op # "none"
    /\ op' = "none"
    /\ failed_disks_list' = <<>>
    /\ ret' = NoRet
    /\ UNCHANGED <<args, chunk_rack_config, stripes_location, stripes_per_disk,
                   num_chunks_per_disk, generated, rng, pc>>
    /\ UNCHANGED <<device_vars, tool_vars>>

Next ==
    \/ New
    \/ CheckDataLoss
    \/ GetNumFailedStatus
    \/ GetStripeLocation
    \/ GetStripesToRepair
    \/ GetNumStripesToRepair
    \/ Return

Init == InitWith(RSConfigs \cup LRC8Configs \cup DRCConfigs \cup GateConfigs)
Spec == Init /\ [][Next]_vars

InitLRC16 == InitWith(LRC16Configs)
SpecLRC16 == InitLRC16 /\ [][Next]_vars

InitLRC8L3 == InitWith(LRC8L3Configs)
SpecLRC8L3 == InitLRC8L3 /\ [][Next]_vars

-----------------------------------------------------------------------------
(* Calls on a Disk or a Node.  Every call that takes curr_time is made at  *)
(* a time not before the previous call's.                                  *)

\* no Placement is constructed (Simulation.__init__: self.placement = None)
NoPlacement ==
    /\ args = None
    /\ rng = 0
    /\ chunk_rack_config = None
    /\ stripes_location = <<>>
    /\ stripes_per_disk = <<>>
    /\ num_chunks_per_disk = <<>>
    /\ generated = FALSE
    /\ pc = "absent"
    /\ op = "none"
    /\ failed_disks_list = <<>>
    /\ ret = NoRet

\* the time the disk has spent outside NORMAL since init_clock, once the
\* clock reaches t
DownAt(t) == IF disk.state # STATE_NORMAL THEN down + (t - now) ELSE down

\* the time the disk has spent in NORMAL since init_clock, once the clock
\* reaches t
UpAt(t) == IF disk.state = STATE_NORMAL THEN up + (t - now) ELSE up

\* a method of the disk called at time t, leaving the disk as after
DiskCall(name, after, t) ==
    /\ obj = "disk"
    /\ disk' = after
    /\ now' = t
    /\ dop' = name
    /\ was' = disk.state
    /\ UNCHANGED <<node, obj>>
    /\ UNCHANGED <<placement_vars, tool_vars>>

\* the history of a disk event at time t
DiskEvent(t) ==
    /\ down' = DownAt(t)
    /\ up' = UpAt(t)
    /\ unavail' = 0

DiskInitClock ==
    \E t \in now..MaxTime :
        /\ DiskCall("init_clock", disk_init_clock(disk, t), t)
        /\ down' = 0
        /\ up' = 0
        /\ unavail' = 0
        /\ clean' = (disk.state = STATE_NORMAL)
        /\ escalated' = FALSE

DiskInitState ==
    /\ DiskCall("init_state", disk_init_state(disk), now)
    /\ DiskEvent(now)
    /\ clean' = FALSE
    /\ UNCHANGED escalated

DiskUpdateClock ==
    \E t \in now..MaxTime :
        /\ DiskCall("update_clock", disk_update_clock(disk, t), t)
        /\ DiskEvent(t)
        /\ UNCHANGED <<clean, escalated>>

FailDisk ==
    \E t \in now..MaxTime :
        /\ DiskCall("fail_disk", fail_disk(disk, t), t)
        /\ DiskEvent(t)
        /\ escalated' = (escalated \/ disk.state = STATE_UNAVAILABLE)
        /\ UNCHANGED clean

RepairDisk ==
    \E t \in now..MaxTime :
        /\ repair_disk(disk, t).unavail_clock <= MaxUnavail
        /\ DiskCall("repair_disk", repair_disk(disk, t), t)
        /\ DiskEvent(t)
        /\ clean' = (clean /\ disk.state = STATE_CRASHED)
        /\ UNCHANGED escalated

OfflineDisk ==
    \E t \in now..MaxTime :
        /\ DiskCall("offline_disk", offline_disk(disk, t), t)
        /\ DiskEvent(t)
        /\ UNCHANGED <<clean, escalated>>

OnlineDisk ==
    \E t \in now..MaxTime :
        /\ DiskCall("online_disk", online_disk(disk, t), t)
        /\ DiskEvent(t)
        /\ UNCHANGED <<clean, escalated>>

GetUnavailTime ==
    \E t \in now..MaxTime :
        /\ DiskCall("get_unavail_time", disk, t)
        /\ down' = DownAt(t)
        /\ up' = UpAt(t)
        /\ unavail' = get_unavail_time(disk, t)
        /\ UNCHANGED <<clean, escalated>>

\* a method of the node called at time t, leaving the node as after
NodeCall(name, after, t) ==
    /\ obj = "node"
    /\ node' = after
    /\ now' = t
    /\ dop' = name
    /\ UNCHANGED <<obj, disk, was, unavail, down, up, clean, escalated>>
    /\ UNCHANGED <<placement_vars, tool_vars>>

NodeInitClock ==
    \E t \in now..MaxTime : NodeCall("init_clock", node_init_clock(node, t), t)

NodeInitState == NodeCall("init_state", node_init_state(node), now)

NodeUpdateClock ==
    \E t \in now..MaxTime : NodeCall("update_clock", node_update_clock(node, t), t)

FailNode ==
    \E t \in now..MaxTime : NodeCall("fail_node", fail_node(node, t), t)

RepairNode == NodeCall("repair_node", repair_node(node), now)

OfflineNode == NodeCall("offline_node", offline_node(node), now)

OnlineNode == NodeCall("online_node", online_node(node), now)

\* the calls of the simulation's event loop on one disk
DiskNext ==
    \/ DiskInitClock
    \/ DiskUpdateClock
    \/ FailDisk
    \/ RepairDisk
    \/ OfflineDisk
    \/ OnlineDisk
    \/ GetUnavailTime

InitDisk == NoPlacement /\ Constructed /\ Idle /\ obj = "disk"
SpecDisk == InitDisk /\ [][DiskNext]_vars

\* every method of a disk or of a node
DeviceNext ==
    \/ DiskInitClock
    \/ DiskInitState
    \/ DiskUpdateClock
    \/ FailDisk
    \/ RepairDisk
    \/ OfflineDisk
    \/ OnlineDisk
    \/ GetUnavailTime
    \/ NodeInitClock
    \/ NodeInitState
    \/ NodeUpdateClock
    \/ FailNode
    \/ RepairNode
    \/ OfflineNode
    \/ OnlineNode

InitDevices == NoPlacement /\ Constructed /\ Idle /\ obj \in {"disk", "node"}
SpecDevices == InitDevices /\ [][DeviceNext]_vars

-----------------------------------------------------------------------------
(* Weibull of smp_data_structures.py, for integer shape, scale and         *)
(* location.  A fraction is <<numerator, denominator>>; a density or a     *)
(* rate [c, e] is the number c * exp(-e) for fractions c and e.            *)

\* mpmath.power(b, e) for an integer b and e >= 0
RECURSIVE Pow(_, _)
Pow(b, e) == IF e = 0 THEN 1 ELSE b * Pow(b, e - 1)

\* mpmath.mp.dps = 100 gives 336 bits of precision: float(1) - mpmath.exp(-e)
\* is 1 once exp(-e) is below 2^-337, that is once e is above 337 ln 2 = 233.59
RoundsToOne(e) == e[1] * 100 > 23359 * e[2]

\* Weibull.pdf_eval
pdf_eval(w, x) ==
    IF x < 0 \/ x < w.location THEN [c |-> <<0, 1>>, e |-> <<0, 1>>]
    ELSE [c |-> <<w.shape * Pow(x - w.location, w.shape - 1), Pow(w.scale, w.shape)>>,
          e |-> <<Pow(x - w.location, w.shape), Pow(w.scale, w.shape)>>]

\* Weibull.cdf_eval; the value returned is 1 - one_minus (0 is 1 - 1)
cdf_eval(w, x) ==
    IF x < w.location THEN [one_minus |-> [c |-> <<1, 1>>, e |-> <<0, 1>>]]
    ELSE IF RoundsToOne(<<Pow(x - w.location, w.shape), Pow(w.scale, w.shape)>>)
    THEN [one_minus |-> [c |-> <<0, 1>>, e |-> <<0, 1>>]]
    ELSE [one_minus |->
            [c |-> <<1, 1>>,
             e |-> <<Pow(x - w.location, w.shape), Pow(w.scale, w.shape)>>]]

\* Weibull.hazard_rate: 0 before location, 1/scale for shape 1, else
\* abs(pdf / (1 - cdf)), which divides by zero once cdf is 1
hazard_rate(w, x) ==
    IF x < w.location THEN [exc |-> "", c |-> <<0, 1>>, e |-> <<0, 1>>]
    ELSE IF w.shape = 1 THEN [exc |-> "", c |-> <<1, w.scale>>, e |-> <<0, 1>>]
    ELSE IF cdf_eval(w, x).one_minus.c[1] = 0
    THEN [exc |-> "ZeroDivisionError", c |-> <<0, 1>>, e |-> <<0, 1>>]
    ELSE [exc |-> "",
          c |-> <<pdf_eval(w, x).c[1] * cdf_eval(w, x).one_minus.c[2],
                  pdf_eval(w, x).c[2] * cdf_eval(w, x).one_minus.c[1]>>,
          e |-> <<pdf_eval(w, x).e[1] * cdf_eval(w, x).one_minus.e[2]
                     - cdf_eval(w, x).one_minus.e[1] * pdf_eval(w, x).e[2],
                  pdf_eval(w, x).e[2] * cdf_eval(w, x).one_minus.e[2]>>]

\* range(start, stop, step) for step > 0
RECURSIVE RangeSeq(_, _, _)
RangeSeq(start, stop, step) ==
    IF start >= stop THEN <<>> ELSE <<start>> \o RangeSeq(start + step, stop, step)

\* the loop of get_max_hazard_rate over the points left, max the largest
\* rate so far; the rates compared have e = 0
RECURSIVE MaxHazard(_, _, _)
MaxHazard(w, points, max) ==
    IF points = <<>> THEN [exc |-> "", c |-> max, e |-> <<0, 1>>]
    ELSE IF hazard_rate(w, points[1]).exc # "" THEN hazard_rate(w, points[1])
    ELSE IF hazard_rate(w, points[1]).c[1] * max[2]
               > max[1] * hazard_rate(w, points[1]).c[2]
    THEN MaxHazard(w, Tail(points), hazard_rate(w, points[1]).c)
    ELSE MaxHazard(w, Tail(points), max)

\* Weibull.get_max_hazard_rate for an integer mission_time;
\* int(float(0.1) * mission_time) is mission_time \div 10, and range()
\* raises ValueError for a step of 0
get_max_hazard_rate(w, mission_time) ==
    IF w.shape = 1 THEN [exc |-> "", c |-> <<1, w.scale>>, e |-> <<0, 1>>]
    ELSE IF mission_time \div 10 = 0
    THEN [exc |-> "ValueError", c |-> <<0, 1>>, e |-> <<0, 1>>]
    ELSE MaxHazard(w, RangeSeq(1, mission_time, mission_time \div 10), <<0, 1>>)

\* a method of the Weibull object called with arg, returning res
WbCall(name, arg, res) ==
    /\ wb.call = "none"
    /\ wb' = [wb EXCEPT !.call = name, !.arg = arg, !.ret = res]
    /\ UNCHANGED <<placement_vars, device_vars, prog>>

\* the call returns
WbReturn ==
    /\ wb # None
    /\ wb.call # "none"
    /\ wb' = [wb EXCEPT !.call = "none", !.arg = 0, !.ret = 0]
    /\ UNCHANGED <<placement_vars, device_vars, prog>>

WeibullNext ==
    \/ \E x \in 0..MaxX : WbCall("pdf_eval", x, pdf_eval(wb.w, x))
    \/ \E x \in 0..MaxX : WbCall("cdf_eval", x, cdf_eval(wb.w, x))
    \/ \E x \in 0..MaxX : WbCall("hazard_rate", x, hazard_rate(wb.w, x))
    \/ \E t \in {1, 5, 9, 10, 15, 20, 25, 100} :
          WbCall("get_max_hazard_rate", t, get_max_hazard_rate(wb.w, t))
    \/ WbReturn

\* Weibull(shape, scale, location)
InitWeibull ==
    /\ NoPlacement /\ Constructed /\ obj = "weibull"
    /\ prog = [pc |-> "none"]
    /\ \E p \in {<<1, 1, 0>>, <<1, 2, 0>>, <<1, 2, 2>>, <<1, 3, 5>>, <<2, 1, 0>>,
                 <<2, 2, 1>>, <<2, 3, 4>>, <<3, 1, 0>>, <<3, 2, 1>>, <<2, 50, 0>>,
                 <<2, 50, 3>>} :
          wb = [w |-> [shape |-> p[1], scale |-> p[2], location |-> p[3]],
                call |-> "none", arg |-> 0, ret |-> 0]
SpecWeibull == InitWeibull /\ [][WeibullNext]_vars

-----------------------------------------------------------------------------
(* The main program of simedc.py.  The command line is the list of         *)
(* <<option, argument>> pairs getopt is given; prog is the run: where it   *)
(* is, the parameters, the exit code, the jobs and what the shards did.    *)

\* the defaults of get_parms
Defaults ==
    [total_iterations |-> 4, num_processes |-> 4, mission_time |-> 87600,
     rseed_plus |-> 10, num_racks |-> 32, nodes_per_rack |-> 32,
     disks_per_node |-> 1, capacity_per_disk |-> 1048576, chunk_size |-> 256,
     num_stripes |-> 349524, code_type |-> CODE_TYPE_RS, code_n |-> 9,
     code_k |-> 6, code_l |-> 2, code_free |-> 0,
     place_type |-> PLACE_TYPE_FLAT, chunk_rack_config |-> None,
     use_network |-> TRUE, network_setting |-> <<125, 125>>,
     use_power_outage |-> FALSE, use_trace |-> FALSE, trace_id |-> 9,
     sim_type |-> "uniformization_balanced_failure_biasing",
     is_fb_prob |-> <<1, 2>>, is_beta |-> <<61, 100>>]

\* int(a) for the argument strings of the model: Some(value), or None for
\* the ValueError of a string that is not a number
int(a) ==
    CASE a = "-3" -> Some(0 - 3) [] a = "0" -> Some(0) [] a = "2" -> Some(2)
      [] a = "3" -> Some(3) [] a = "4" -> Some(4) [] a = "7" -> Some(7)
      [] a = "8" -> Some(8) [] a = "9" -> Some(9) [] a = "10" -> Some(10)
      [] OTHER -> None

\* the options of the getopt string "hi:p:m:u:R:N:D:C:K:S:t:n:k:l:E:T:g:W:s:O:F:d:A:f:b:"
ShortOpts ==
    {"-h", "-i", "-p", "-m", "-u", "-R", "-N", "-D", "-C", "-K", "-S", "-t",
     "-n", "-k", "-l", "-E", "-T", "-g", "-W", "-s", "-O", "-F", "-d", "-A",
     "-f", "-b"}

\* the parameter each integer option sets
Field ==
    [o \in {"-i", "-p", "-m", "-u", "-R", "-N", "-D", "-C", "-K", "-S", "-n",
            "-k", "-l", "-E", "-d"} |->
       CASE o = "-i" -> "total_iterations" [] o = "-p" -> "num_processes"
         [] o = "-m" -> "mission_time" [] o = "-u" -> "rseed_plus"
         [] o = "-R" -> "num_racks" [] o = "-N" -> "nodes_per_rack"
         [] o = "-D" -> "disks_per_node" [] o = "-C" -> "capacity_per_disk"
         [] o = "-K" -> "chunk_size" [] o = "-S" -> "num_stripes"
         [] o = "-n" -> "code_n" [] o = "-k" -> "code_k" [] o = "-l" -> "code_l"
         [] o = "-E" -> "code_free" [] o = "-d" -> "trace_id"]

\* one turn of the option loop of get_parms, for the options -h, -t, -T, -s,
\* -A and the integer options; an uncaught exception ends the program with
\* exit code 1
Opt(st, o, a) ==
    IF o = "-h" THEN [st EXCEPT !.pc = "exited", !.code = Some(0), !.at = "help"]
    ELSE IF o \in DOMAIN Field
    THEN IF int(a) = None
         THEN [st EXCEPT !.pc = "exited", !.code = Some(1), !.at = "int",
                         !.exc = "ValueError"]
         ELSE [st EXCEPT !.parms[Field[o]] = int(a)[1]]
    ELSE IF o = "-t"
    THEN IF a = "rs" THEN [st EXCEPT !.parms.code_type = CODE_TYPE_RS]
         ELSE IF a = "lrc" THEN [st EXCEPT !.parms.code_type = CODE_TYPE_LRC]
         ELSE IF a = "drc" THEN [st EXCEPT !.parms.code_type = CODE_TYPE_DRC]
         ELSE [st EXCEPT !.pc = "exited", !.code = Some(2), !.at = "code_type"]
    ELSE IF o = "-T"
    THEN IF a = "flat" THEN [st EXCEPT !.parms.place_type = PLACE_TYPE_FLAT]
         ELSE IF a = "hie"
         THEN [st EXCEPT !.parms.place_type = PLACE_TYPE_HIERARCHICAL]
         ELSE [st EXCEPT !.pc = "exited", !.code = Some(2), !.at = "place_type"]
    ELSE IF o = "-s"
    THEN IF a = "200,125" THEN [st EXCEPT !.parms.network_setting = <<200, 125>>]
         ELSE IF a = "100,125"
         THEN [st EXCEPT !.parms.network_setting = <<100, 125>>]
         ELSE [st EXCEPT !.pc = "exited", !.code = Some(1), !.at = "float",
                         !.exc = "ValueError"]
    ELSE IF o = "-A"
    THEN IF a = "regular" THEN [st EXCEPT !.parms.sim_type = "regular"]
         ELSE IF a = "unifbfb"
         THEN [st EXCEPT !.parms.sim_type =
                            "uniformization_balanced_failure_biasing"]
         ELSE st
    ELSE st

\* the option loop of get_parms
RECURSIVE Opts(_, _)
Opts(st, opts) ==
    IF opts = <<>> \/ st.pc = "exited" THEN st
    ELSE Opts(Opt(st, opts[1][1], opts[1][2]), Tail(opts))

\* get_parms: getopt raises for an option that is not declared, and the
\* handler exits with code 1; no option at all exits with code 2
get_parms(st) ==
    IF \E i \in 1..Len(st.argv) : st.argv[i][1] \notin ShortOpts
    THEN [st EXCEPT !.pc = "exited", !.code = Some(1), !.at = "getopt"]
    ELSE IF Len(st.argv) = 0
    THEN [st EXCEPT !.pc = "exited", !.code = Some(2), !.at = "no_option"]
    ELSE Opts([st EXCEPT !.pc = "parsed"], st.argv)

\* a faulty variant of the capacity test: equality is refused
CapacityShortOrEqual(p) ==
    p.capacity_per_disk * p.num_racks * p.nodes_per_rack * p.disks_per_node
      <= p.code_n * p.num_stripes * p.chunk_size

\* total_cap < real_cap; the products are integers before float() is applied
CapacityShort(p) ==
    p.capacity_per_disk * p.num_racks * p.nodes_per_rack * p.disks_per_node
      < p.code_n * p.num_stripes * p.chunk_size

\* params_tuple of the main program: 21 entries, code_free is not among them
ParamsTuple(p) ==
    <<p.mission_time, p.num_racks, p.nodes_per_rack, p.disks_per_node,
      p.capacity_per_disk, p.chunk_size, p.num_stripes, p.code_type, p.code_n,
      p.code_k, p.code_l, p.place_type, p.chunk_rack_config, p.use_network,
      p.network_setting, p.use_power_outage, p.use_trace, p.trace_id,
      p.sim_type, p.is_fb_prob, p.is_beta>>

\* the main program from the capacity test to the call of pool.map;
\* use_trace is False for every command line of the model and
\* multiprocessing.Pool raises ValueError for fewer than 1 process
main(st) ==
    IF CapacityShort(st.parms)
    THEN [st EXCEPT !.pc = "exited", !.code = Some(2), !.at = "capacity"]
    ELSE IF st.parms.network_setting[1] > st.parms.network_setting[2]
    THEN [st EXCEPT !.pc = "exited", !.code = Some(2), !.at = "bandwidth"]
    ELSE IF st.parms.num_processes < 1
    THEN [st EXCEPT !.pc = "exited", !.code = Some(1), !.at = "pool",
                    !.exc = "ValueError"]
    ELSE IF st.parms.total_iterations % st.parms.num_processes # 0
    THEN [st EXCEPT !.pc = "exited", !.code = Some(2), !.at = "divisible"]
    ELSE [st EXCEPT !.pc = "mapping",
            !.jobs = [i \in 1..st.parms.num_processes |->
                        <<st.parms.total_iterations \div st.parms.num_processes,
                          st.parms.rseed_plus + i - 1>> \o ParamsTuple(st.parms)],
            !.results = [i \in 1..st.parms.num_processes |-> None]]

\* do_it up to the construction of the Simulate object: the job description
\* is unpacked into 24 names, then both generators are seeded
do_it(job_description) ==
    IF Len(job_description) # 24
    THEN [exc |-> "ValueError", nprandom |-> None, random |-> None,
          simulate |-> FALSE, iter_num |-> None]
    ELSE [exc |-> "", nprandom |-> Some(job_description[2]),
          random |-> Some(job_description[2]), simulate |-> TRUE,
          iter_num |-> Some(job_description[1])]

GetParms ==
    /\ prog.pc = "start"
    /\ prog' = get_parms(prog)
    /\ UNCHANGED <<placement_vars, device_vars, wb>>

Main ==
    /\ prog.pc = "parsed"
    /\ prog' = main(prog)
    /\ UNCHANGED <<placement_vars, device_vars, wb>>

\* a worker of the pool runs do_it on a job
DoIt ==
    /\ prog.pc = "mapping"
    /\ \E i \in DOMAIN prog.jobs :
          /\ prog.results[i] = None
          /\ prog' = [prog EXCEPT !.results[i] = Some(do_it(prog.jobs[i]))]
    /\ UNCHANGED <<placement_vars, device_vars, wb>>

\* pool.map returns when every shard has returned, or raises the exception
\* of a shard, which ends the program with exit code 1
Collect ==
    /\ prog.pc = "mapping"
    /\ \/ /\ \E i \in DOMAIN prog.results :
                prog.results[i] # None /\ prog.results[i][1].exc # ""
          /\ prog' = [prog EXCEPT !.pc = "exited", !.code = Some(1), !.at = "map",
                                  !.exc = "ValueError"]
       \/ /\ \A i \in DOMAIN prog.results :
                prog.results[i] # None /\ prog.results[i][1].exc = ""
          /\ prog' = [prog EXCEPT !.pc = "exited", !.code = Some(0), !.at = "end"]
    /\ UNCHANGED <<placement_vars, device_vars, wb>>

MainNext == GetParms \/ Main \/ DoIt \/ Collect

\* the program is started with at most MaxArgs options
InitMain ==
    /\ NoPlacement /\ Constructed /\ obj = "main" /\ wb = None
    /\ \E argv \in UNION {[1..n -> 
            {<<"-i", "4">>, <<"-i", "3">>, <<"-i", "x">>, <<"-p", "2">>,
             <<"-p", "0">>, <<"-p", "-3">>, <<"-u", "7">>, <<"-C", "9">>,
             <<"-C", "8">>, <<"-S", "4">>, <<"-t", "lrc">>, <<"-t", "xx">>,
             <<"-T", "hie">>, <<"-T", "xx">>, <<"-A", "regular">>,
             <<"-A", "xx">>, <<"-s", "200,125">>, <<"-s", "100,125">>,
             <<"-x", "">>, <<"-h", "">>}] : n \in 0..MaxArgs} :
          prog = [pc |-> "start", argv |-> argv, parms |-> Defaults,
                  code |-> None, at |-> "", exc |-> "", jobs |-> <<>>,
                  results |-> <<>>]
SpecMain == InitMain /\ [][MainNext]_vars

\* C26: for shape = 1 hazard_rate(x) returns 1/scale for every x >= 0,
\* whatever the location; for shape # 1 it returns pdf(x) / (1 - cdf(x)),
\* that is a rate r with r * (1 - cdf(x)) = pdf(x); pdf_eval and cdf_eval
\* return 0 for every x < location.
C26_HazardRate ==
    /\ (wb.call = "hazard_rate" /\ wb.w.shape = 1)
          => wb.ret = [exc |-> "", c |-> <<1, wb.w.scale>>, e |-> <<0, 1>>]
    /\ (wb.call = "hazard_rate" /\ wb.w.shape # 1)
          => /\ wb.ret.exc = ""
             /\ wb.ret.c[1] * cdf_eval(wb.w, wb.arg).one_minus.c[1] * pdf_eval(wb.w, wb.arg).c[2]
                  = pdf_eval(wb.w, wb.arg).c[1] * wb.ret.c[2] * cdf_eval(wb.w, wb.arg).one_minus.c[2]
             /\ wb.ret.e[1] = 0
             /\ cdf_eval(wb.w, wb.arg).one_minus.e = pdf_eval(wb.w, wb.arg).e
    /\ (wb.call = "pdf_eval" /\ wb.arg < wb.w.location) => wb.ret.c[1] = 0
    /\ (wb.call = "cdf_eval" /\ wb.arg < wb.w.location)
          => wb.ret.one_minus = [c |-> <<1, 1>>, e |-> <<0, 1>>]

\* C27: get_max_hazard_rate(T) returns a value for every T > 0: 1/scale for
\* shape = 1, and for shape # 1 the largest hazard_rate over exactly 10
\* equally spaced points of [0, T].
C27_MaxHazardRate ==
    wb.call = "get_max_hazard_rate" =>
        /\ wb.ret.exc = ""
        /\ wb.w.shape = 1 => wb.ret.c = <<1, wb.w.scale>>
        /\ wb.w.shape # 1 =>
              /\ Len(RangeSeq(1, wb.arg, wb.arg \div 10)) = 10
              /\ \A i \in 1..10 :
                    hazard_rate(wb.w, 1 + (i - 1) * (wb.arg \div 10)).c[1] * wb.ret.c[2]
                      <= wb.ret.c[1] * hazard_rate(wb.w, 1 + (i - 1) * (wb.arg \div 10)).c[2]
              /\ \E i \in 1..10 :
                    hazard_rate(wb.w, 1 + (i - 1) * (wb.arg \div 10)).c = wb.ret.c

-----------------------------------------------------------------------------
(* Properties *)

RackOf(d) == d \div (args.nodes_per_rack * args.disks_per_node)
NodeOf(d) == d \div args.disks_per_node

Built == pc = "built"
StripeIds == 1..Len(stripes_location)

RECURSIVE SumLens(_, _)
SumLens(f, S) ==
    IF S = {} THEN 0
    ELSE LET d == MinOf(S) IN Len(f[d]) + SumLens(f, S \ {d})

\* C1: once a Placement is constructed, the reverse index agrees with the
\* forward map: every disk of stripes_location[s] lists s in
\* stripes_per_disk, and every stripe listed in stripes_per_disk[d] is a
\* stripe that has d among its disks.
C1_ReverseIndexAgrees ==
    Built =>
        /\ \A s \in StripeIds : \A i \in 1..Len(stripes_location[s]) :
               (s - 1) \in Range(stripes_per_disk[stripes_location[s][i]])
        /\ \A d \in Disks : \A j \in 1..Len(stripes_per_disk[d]) :
               /\ stripes_per_disk[d][j] + 1 \in StripeIds
               /\ d \in Range(stripes_location[stripes_per_disk[d][j] + 1])

\* two stripes placed, a disk holding both and a disk holding none
C1_Witness ==
    /\ Built /\ Len(stripes_location) = 2
    /\ \E d \in Disks : stripes_per_disk[d] = <<0, 1>>
    /\ \E d \in Disks : stripes_per_disk[d] = <<>>

\* C2: for every constructed placement the lengths of the lists of
\* stripes_per_disk add up to n * num_stripes.
C2_TotalChunkLocations ==
    Built => SumLens(stripes_per_disk, Disks) = args.code_n * args.num_stripes

\* C3: in a FLAT placement every stripe has n disk indices, each a disk id
\* of 0..num_disks-1, in n pairwise distinct racks (so pairwise distinct).
C3_FlatDistinctRacks ==
    (Built /\ args.place_type = PLACE_TYPE_FLAT) =>
        \A s \in StripeIds :
            LET loc == stripes_location[s]
            IN /\ Len(loc) = args.code_n
               /\ \A i \in 1..Len(loc) : loc[i] \in Disks
               /\ \A i, j \in 1..Len(loc) :
                      i # j => /\ RackOf(loc[i]) # RackOf(loc[j])
                               /\ loc[i] # loc[j]

\* a FLAT placement of two stripes of three chunks on racks of several
\* disks, a chunk of which is not on its rack's first disk
C3_Witness ==
    /\ Built /\ args.place_type = PLACE_TYPE_FLAT
    /\ Len(stripes_location) = 2 /\ args.code_n = 3
    /\ args.disks_per_node = 2
    /\ \E s \in StripeIds : \E i \in 1..Len(stripes_location[s]) :
           stripes_location[s][i] # MinDisk(args, RackOf(stripes_location[s][i]))

\* the number of chunks of stripe location loc in rack r
ChunksInRack(loc, r) == Cardinality({i \in 1..Len(loc) : RackOf(loc[i]) = r})

\* stripe location loc occupies exactly len(c) distinct racks, its per-rack
\* chunk counts are the multiset c, and chunks of the same rack are on
\* pairwise distinct nodes
MatchesConfig(loc, c) ==
    LET racks == {RackOf(loc[i]) : i \in 1..Len(loc)}
    IN /\ Cardinality(racks) = Len(c)
       /\ \A v \in Range(c) \cup {ChunksInRack(loc, r) : r \in racks} :
              Cardinality({r \in racks : ChunksInRack(loc, r) = v})
                  = Cardinality({i \in 1..Len(c) : c[i] = v})
       /\ \A i, j \in 1..Len(loc) :
              (i # j /\ RackOf(loc[i]) = RackOf(loc[j]))
                  => NodeOf(loc[i]) # NodeOf(loc[j])

\* C4 as stated: in a HIERARCHICAL placement with chunk_rack_config c every
\* stripe occupies exactly len(c) distinct racks, its per-rack chunk counts
\* are the multiset c, and chunks of the same rack are on pairwise distinct
\* nodes.
C4_HierMatchesConfig ==
    (Built /\ args.place_type = PLACE_TYPE_HIERARCHICAL) =>
        \A s \in StripeIds : MatchesConfig(stripes_location[s], chunk_rack_config[1])

\* C4 amended: the same for every chunk_rack_config whose entries are all
\* at least 1 (a rack given 0 chunks is drawn but not occupied).
C4_HierPositiveConfig ==
    (/\ Built /\ args.place_type = PLACE_TYPE_HIERARCHICAL
     /\ chunk_rack_config # None
     /\ \A i \in 1..Len(chunk_rack_config[1]) : chunk_rack_config[1][i] >= 1) =>
        \A s \in StripeIds : MatchesConfig(stripes_location[s], chunk_rack_config[1])

\* a HIERARCHICAL placement of two stripes with two chunks in one rack, on
\* nodes of two disks, a chunk of which is on its node's second disk
C4_Witness ==
    /\ Built /\ args.place_type = PLACE_TYPE_HIERARCHICAL
    /\ Len(stripes_location) = 2 /\ args.disks_per_node = 2
    /\ chunk_rack_config = Some(<<2, 1>>)
    /\ \E s \in StripeIds : \E i \in 1..Len(stripes_location[s]) :
           stripes_location[s][i] % 2 = 1

M == args.code_n - args.code_k
FailedSet == Range(failed_disks_list)

\* the chunk positions (0-based) of a stripe location on failed disks
FailedPositions(loc) == {i - 1 : i \in {j \in 1..Len(loc) : loc[j] \in FailedSet}}

IsRsOrDrc == args.code_type \in {CODE_TYPE_RS, CODE_TYPE_DRC}
IsLrc == args.code_type = CODE_TYPE_LRC

GroupData(g) == IF g + 1 <= Len(lrc_data_group) THEN lrc_data_group[g + 1] ELSE {}
GroupParity(g) ==
    IF g + 1 <= Len(lrc_local_parity) THEN {lrc_local_parity[g + 1]} ELSE {}

\* the residual counter of group g of a stripe: its failed data chunks, one
\* of them cancelled by the group's local parity when that parity is intact
Residual(loc, g) ==
    LET failed == Cardinality(FailedPositions(loc) \cap GroupData(g))
        intact == GroupParity(g) \cap ((0..Len(loc) - 1) \ FailedPositions(loc))
    IN IF failed > 0 /\ intact # {} THEN failed - 1 ELSE failed

RECURSIVE ResidualSum(_, _)
ResidualSum(loc, g) ==
    IF g < 0 THEN 0 ELSE Residual(loc, g) + ResidualSum(loc, g - 1)

\* the stripe is lost by the LRC rule for l local groups
LrcRule(loc, l) ==
    ResidualSum(loc, l - 1)
        + Cardinality(FailedPositions(loc) \cap lrc_global_parity)
    > args.code_n - args.code_k - l

\* C6: for LRC with l > 0 local groups, check_data_loss declares a loss if
\* and only if some stripe's residual group counters plus its failed global
\* parities exceed n - k - l.
C6_LrcLossIffResidual ==
    (op = "check_data_loss" /\ IsLrc /\ args.code_l > 0) =>
        /\ ret.exc = ""
        /\ ret.loss <=> \E s \in StripeIds : LrcRule(stripes_location[s], args.code_l)

\* the disks of the chunk positions P of the single stripe
DisksAt(P) == {stripes_location[1][p + 1] : p \in P}

\* the three failure sets of the LRC(16, k, 2) scenario and their answers
LrcScenario(k) ==
    (/\ op = "check_data_loss" /\ IsLrc /\ Len(stripes_location) = 1
     /\ args.code_n = 16 /\ args.code_k = k /\ args.code_l = 2) =>
        /\ ret.exc = ""
        /\ FailedSet = DisksAt({0, 6}) => ~ret.loss
        /\ FailedSet = DisksAt({0, 1, 6}) => ~ret.loss
        /\ FailedSet = DisksAt({0, 1, 6, 7}) => ret.loss

\* C7 as stated: for LRC(16, 10, 2) and a single stripe, failing chunk
\* positions {0,6} and {0,1,6} is no loss and failing {0,1,6,7} is a loss.
C7_Lrc16_10 == LrcScenario(10)

\* C7 amended: the same three answers hold for LRC(16, 12, 2), the code
\* whose 12 data chunks the schema lays out.
C7_Lrc16_12 == LrcScenario(12)

\* LRC(16, 12, 2): positions {0,1,6,7} failed and the loss reported
C7_Witness ==
    /\ op = "check_data_loss" /\ IsLrc /\ Len(stripes_location) = 1
    /\ args.code_n = 16 /\ args.code_k = 12 /\ args.code_l = 2
    /\ FailedSet = DisksAt({0, 1, 6, 7})
    /\ ret.loss

\* C8: for RS, get_num_failed_status returns a pair with num_failed_stripes
\* <= num_lost_chunks <= n * num_failed_stripes, and (0, 0) for the empty
\* list.
C8_FailedStatusBounds ==
    (op = "get_num_failed_status" /\ args.code_type = CODE_TYPE_RS) =>
        /\ ret.exc = ""
        /\ ret.status[1] <= ret.status[2]
        /\ ret.status[2] <= args.code_n * ret.status[1]
        /\ failed_disks_list = <<>> => ret.status = <<0, 0>>

\* the code's loss predicate on one stripe
LostByCode(s) ==
    IF IsLrc THEN LrcLost(LrcStripeWalk(stripes_location[s], FailedSet))
    ELSE Cardinality(FailedPositions(stripes_location[s])) > M

LostStripes == {s \in StripeIds : LostByCode(s)}

RECURSIVE SumFailed(_)
SumFailed(S) ==
    IF S = {} THEN 0
    ELSE LET s == MinOf(S)
         IN Cardinality(FailedPositions(stripes_location[s])) + SumFailed(S \ {s})

\* the queries' answers when the predicate is evaluated on all stripes
AgreesWithAllStripes ==
    /\ ret.exc = ""
    /\ op = "check_data_loss" => (ret.loss <=> LostStripes # {})
    /\ op = "get_num_failed_status" =>
           ret.status = <<Cardinality(LostStripes), SumFailed(LostStripes)>>

\* C9: for every code type and every accepted (n, k, l) the
\* queries, which look only at the stripes on failed disks, answer as the
\* loss predicate evaluated on all num_stripes stripes does.
C9_RestrictionExact ==
    (op # "none") => AgreesWithAllStripes

\* C10: DRC with n = 9 and k in {5, 6} on at least 3 racks of at least 3
\* nodes is placed with chunk_rack_config forced to [3,3,3], whatever
\* place_type and chunk_rack_config were passed: the constructor succeeds
\* and every stripe has 3 chunks on distinct nodes in each of 3 racks.
C10_DrcForcesHierarchical ==
    (/\ pc # "new" /\ args.code_type = CODE_TYPE_DRC
     /\ args.code_n = 9 /\ args.code_k \in {5, 6}
     /\ args.num_racks >= 3 /\ args.nodes_per_rack >= 3) =>
        /\ Built
        /\ chunk_rack_config = Some(<<3, 3, 3>>)
        /\ Len(stripes_location) = args.num_stripes
        /\ \A s \in StripeIds :
               LET loc == stripes_location[s]
                   racks == {RackOf(loc[i]) : i \in 1..Len(loc)}
               IN /\ Cardinality(racks) = 3
                  /\ \A r \in racks :
                         Cardinality({NodeOf(loc[i]) :
                             i \in {j \in 1..Len(loc) : RackOf(loc[j]) = r}}) = 3

\* the topology cannot satisfy the placement constraint of the configuration
\* in force (for DRC the forced one)
TopologyUnfit ==
    \/ /\ args.place_type = PLACE_TYPE_FLAT
       /\ args.num_racks < args.code_n
    \/ /\ args.place_type = PLACE_TYPE_HIERARCHICAL
       /\ chunk_rack_config # None
       /\ \/ args.num_racks < Len(chunk_rack_config[1])
          \/ MaxSeq(chunk_rack_config[1]) > args.nodes_per_rack
    \/ /\ args.code_type = CODE_TYPE_DRC
       /\ args.code_n = 9 /\ args.code_k = 6 /\ args.num_racks < 3

\* C11: placement generation fails (generate_placement returns False and no
\* stripe is placed) when the topology cannot satisfy the placement
\* constraint: FLAT with num_racks < n, HIERARCHICAL with num_racks <
\* len(chunk_rack_config) or max(chunk_rack_config) > nodes_per_rack, DRC(9,6)
\* on fewer than 3 racks.
C11_UnfitTopologyFails ==
    (pc # "new" /\ TopologyUnfit) => (~generated /\ stripes_location = <<>>)

\* a HIERARCHICAL configuration with enough racks and too few nodes per
\* rack, two stripes asked for and none placed
C11_Witness ==
    /\ pc # "new" /\ args.place_type = PLACE_TYPE_HIERARCHICAL
    /\ args.code_type = CODE_TYPE_RS /\ chunk_rack_config # None
    /\ args.num_racks >= Len(chunk_rack_config[1])
    /\ MaxSeq(chunk_rack_config[1]) > args.nodes_per_rack
    /\ args.num_stripes = 2
    /\ ~generated /\ stripes_location = <<>>

\* a gate of the specification is violated by the arguments
GateViolated ==
    \/ args.code_n <= args.code_k
    \/ args.code_k < 1
    \/ args.code_free < 0
    \/ args.code_free >= args.code_n
    \/ /\ args.code_type = CODE_TYPE_DRC
       /\ ~(args.code_n = 9 /\ args.code_k \in {5, 6})

\* C12: for every code type, placement generation is rejected whenever
\* n <= k, k < 1, code_free < 0 or code_free >= n, and DRC is rejected for
\* every (n, k) other than (9,5) and (9,6); no stripe is placed when a gate
\* is violated.
C12_GatesReject ==
    (pc # "new" /\ GateViolated) => (~generated /\ stripes_location = <<>>)

\* C13: for LRC, placement generation is rejected for every code_l that is
\* not strictly positive, and an accepted code_l never makes a loss query
\* index outside the group schema (no query raises).
C13_LrcGroupsValidated ==
    /\ (pc # "new" /\ IsLrc /\ args.code_l <= 0) =>
           (~generated /\ stripes_location = <<>>)
    /\ (op # "none" /\ IsLrc) => ret.exc = ""

\* C14: a chunk_rack_config whose entries do not sum to n is rejected before
\* any stripe is placed; every stripe of every constructed placement has
\* exactly n disk indices.
C14_ConfigSumRejected ==
    /\ (/\ pc # "new" /\ args.chunk_rack_config # None
        /\ SumSeq(args.chunk_rack_config[1]) # args.code_n) =>
           (~generated /\ stripes_location = <<>>)
    /\ Built => \A s \in StripeIds : Len(stripes_location[s]) = args.code_n

\* C15: constructing a Placement ends either with a fully built placement
\* (generation succeeded, num_stripes stripes in the forward map, a reverse
\* index over all disks) or with a configuration error; a failed
\* generation never ends in a built object or in another exception.
C15_TwoOutcomes ==
    (pc # "new") =>
        \/ /\ Built /\ generated
           /\ Len(stripes_location) = args.num_stripes
           /\ DOMAIN stripes_per_disk = Disks
        \/ /\ ~generated
           /\ pc = "ConfigurationError"

\* C16: once a Placement is constructed, no call of check_data_loss,
\* get_num_failed_status, get_stripe_location, get_stripes_to_repair or
\* get_num_stripes_to_repair changes stripes_location or stripes_per_disk.
C16_MapsImmutable ==
    [][Built => /\ stripes_location' = stripes_location
                /\ stripes_per_disk' = stripes_per_disk]_vars

\* a loss query on two different failed disks that both hold stripes, the
\* first of which still lists what the constructor listed
C16_Witness ==
    /\ op = "check_data_loss" /\ Len(failed_disks_list) = 2
    /\ failed_disks_list[1] # failed_disks_list[2]
    /\ stripes_per_disk[failed_disks_list[2]] # <<>>
    /\ stripes_per_disk[failed_disks_list[1]]
           = StripesOn(stripes_location, failed_disks_list[1])
    /\ stripes_per_disk[failed_disks_list[1]] # <<>>

DiskStates == {STATE_NORMAL, STATE_UNAVAILABLE, STATE_CRASHED}

\* the four state changes of a disk: from, the method called, to
ListedChange(from, call, to) ==
    \/ from = STATE_NORMAL /\ call = "fail_disk" /\ to = STATE_CRASHED
    \/ from = STATE_CRASHED /\ call = "repair_disk" /\ to = STATE_NORMAL
    \/ from = STATE_NORMAL /\ call = "offline_disk" /\ to = STATE_UNAVAILABLE
    \/ from = STATE_UNAVAILABLE /\ call = "online_disk" /\ to = STATE_NORMAL

\* the four, and the two that fail_disk and repair_disk make on an
\* UNAVAILABLE disk
DiskChange(from, call, to) ==
    \/ ListedChange(from, call, to)
    \/ from = STATE_UNAVAILABLE /\ call = "fail_disk" /\ to = STATE_CRASHED
    \/ from = STATE_UNAVAILABLE /\ call = "repair_disk" /\ to = STATE_NORMAL

\* C17, as stated: under any sequence of fail_disk, repair_disk,
\* offline_disk and online_disk calls the only state changes of a Disk are
\* NORMAL -> CRASHED on fail_disk, CRASHED -> NORMAL on repair_disk,
\* NORMAL -> UNAVAILABLE on offline_disk and UNAVAILABLE -> NORMAL on
\* online_disk, and the state is always one of the three.
C17_OnlyFourChanges ==
    /\ [](disk.state \in DiskStates)
    /\ [][disk'.state # disk.state
            => ListedChange(disk.state, dop', disk'.state)]_vars

\* C17, amended: the state changes of a Disk are the four listed and two
\* more, UNAVAILABLE -> CRASHED on fail_disk and UNAVAILABLE -> NORMAL on
\* repair_disk; the state is always one of NORMAL, UNAVAILABLE, CRASHED.
C17_DiskStateChanges ==
    /\ [](disk.state \in DiskStates)
    /\ [][disk'.state # disk.state
            => DiskChange(disk.state, dop', disk'.state)]_vars

\* fail_disk has just crashed a disk that was UNAVAILABLE
C17_Witness ==
    /\ dop = "fail_disk"
    /\ was = STATE_UNAVAILABLE
    /\ disk.state = STATE_CRASHED

\* a CRASHED disk keeps its state and its failure times through
\* offline_disk and online_disk, a CRASHED node its state through
\* offline_node and online_node
CrashedKept ==
    /\ (obj = "disk" /\ disk.state = STATE_CRASHED
          /\ dop' \in {"offline_disk", "online_disk"})
       => /\ disk'.state = STATE_CRASHED
          /\ disk'.unavail_start = disk.unavail_start
          /\ disk'.repair_start = disk.repair_start
          /\ disk'.repair_clock = disk.repair_clock
    /\ (obj = "node" /\ node.state = STATE_NODE_CRASHED
          /\ dop' \in {"offline_node", "online_node"})
       => node'.state = STATE_NODE_CRASHED

\* a step that takes the disk or the node out of CRASHED is a call from leavers
CrashedLeftBy(leavers) ==
    /\ (disk.state = STATE_CRASHED /\ disk'.state # STATE_CRASHED)
       => dop' \in leavers
    /\ (node.state = STATE_NODE_CRASHED /\ node'.state # STATE_NODE_CRASHED)
       => dop' \in leavers

\* C18, as stated: a CRASHED Disk stays CRASHED, with unavail_start,
\* repair_start and repair_clock unchanged, through offline_disk and
\* online_disk, a CRASHED Node stays CRASHED through offline_node and
\* online_node, and only repair_disk / repair_node leaves CRASHED.
C18_OnlyRepairLeavesCrashed ==
    [][CrashedKept /\ CrashedLeftBy({"repair_disk", "repair_node"})]_vars

\* C18, amended: a CRASHED Disk stays CRASHED, with unavail_start,
\* repair_start and repair_clock unchanged, through offline_disk and
\* online_disk, a CRASHED Node stays CRASHED through offline_node and
\* online_node; CRASHED is left only by repair_disk / repair_node or by
\* init_state, which sets the state back to NORMAL.
C18_CrashedOverridesTransient ==
    [][CrashedKept
       /\ CrashedLeftBy({"repair_disk", "repair_node", "init_state"})]_vars

\* online_disk has just been called on a disk that crashed while it was
\* UNAVAILABLE, and the disk is still CRASHED
C18_Witness ==
    /\ dop = "online_disk"
    /\ was = STATE_CRASHED
    /\ escalated
    /\ disk.state = STATE_CRASHED
    /\ disk.unavail_start < disk.repair_start

\* C19, as stated: in every state a Disk reaches through init_clock,
\* update_clock, fail_disk, repair_disk, offline_disk and online_disk,
\* repair_clock > 0 if and only if the state is CRASHED.
C19_RepairClockIffCrashed ==
    (disk.repair_clock > 0) <=> (disk.state = STATE_CRASHED)

\* C19, amended: in every such state repair_clock is never negative, and
\* repair_clock > 0 only if the state is CRASHED (a CRASHED disk has
\* repair_clock = 0 from fail_disk until update_clock is called at a later
\* time).
C19_RepairClockOnlyCrashed ==
    /\ disk.repair_clock >= 0
    /\ (disk.repair_clock > 0) => (disk.state = STATE_CRASHED)

\* update_clock has just set a positive repair clock on a CRASHED disk
C19_Witness ==
    /\ dop = "update_clock"
    /\ disk.state = STATE_CRASHED
    /\ disk.repair_clock > 0
    /\ disk.repair_clock = now - disk.repair_start

\* C20: when init_clock was called on a NORMAL disk and every repair_disk
\* since on a CRASHED one, get_unavail_time(t), called at a time t not
\* before the last call's, returns the total time up to t the disk has
\* spent UNAVAILABLE or CRASHED since init_clock.
C20_UnavailTimeIsDownTime ==
    (clean /\ dop = "get_unavail_time") => unavail = down

\* get_unavail_time on a disk that went UNAVAILABLE, then CRASHED, and has
\* been repaired, after time spent both in and outside NORMAL
C20_Witness ==
    /\ clean
    /\ escalated
    /\ dop = "get_unavail_time"
    /\ disk.state = STATE_NORMAL
    /\ unavail = down
    /\ down > 1
    /\ up > 0

\* the answers a of check_data_loss and b of get_num_failed_status to one list
QueriesAgree(a, b) ==
    /\ a.exc = b.exc
    /\ a.exc = "" => /\ a.loss <=> b.status[1] > 0
                     /\ b.status[2] > 0 <=> b.status[1] > 0

\* C29: for every code type and every failed-disk list (repeats, any
\* order), check_data_loss(F) is true if and only if
\* get_num_failed_status(F) reports num_failed_stripes > 0, and
\* num_lost_chunks > 0 if and only if num_failed_stripes > 0.
C29_QueriesAgree ==
    op = "check_data_loss"
        => QueriesAgree(ret, get_num_failed_status(failed_disks_list))

\* the list without its i-th entry
Without(list, i) == SubSeq(list, 1, i - 1) \o SubSeq(list, i + 1, Len(list))

\* a loss reported for the smaller list (a) is reported for the larger (b)
LossKept(a, b) == (a.exc = "" /\ a.loss) => (b.exc = "" /\ b.loss)

\* the counts reported for the smaller list (a) are not above those reported
\* for the larger (b)
StatusKept(a, b) ==
    a.exc = "" => /\ b.exc = ""
                  /\ b.status[1] >= a.status[1]
                  /\ b.status[2] >= a.status[2]

\* C30: data loss is monotone in the failed set for every code type: when
\* one more disk is added to a failed list, a loss check_data_loss reported
\* is still reported, and num_failed_stripes and num_lost_chunks of
\* get_num_failed_status do not decrease.
C30_LossMonotone ==
    /\ op = "check_data_loss" =>
          \A i \in 1..Len(failed_disks_list) :
              LossKept(check_data_loss(Without(failed_disks_list, i)), ret)
    /\ op = "get_num_failed_status" =>
          \A i \in 1..Len(failed_disks_list) :
              StatusKept(get_num_failed_status(Without(failed_disks_list, i)), ret)

\* the local clock of a disk or a node d is the time from begin_time to the
\* last clock update
ClockFromBegin(d) == d.clock = d.last_time_update - d.begin_time /\ d.clock >= 0

\* a repair leaves the clock of the repaired disk or node at 0
RepairZeroesClock ==
    /\ dop' = "repair_disk" => disk'.clock = 0
    /\ dop' = "repair_node" => node'.clock = 0

\* C28, as stated: for both Disk and Node, in every state reachable through
\* init_clock, update_clock, fail, repair, offline and online, clock =
\* last_time_update - begin_time and clock >= 0; the clock is 0 immediately
\* after a repair and afterwards measures only the time since that repair
\* (begin_time is the time of the repair).
C28_ClockSinceRepair ==
    /\ [](ClockFromBegin(disk) /\ ClockFromBegin(node))
    /\ [][/\ RepairZeroesClock
          /\ dop' = "repair_disk" => disk'.begin_time = now'
          /\ dop' = "repair_node" => node'.begin_time = now']_vars

\* C28, amended: clock = last_time_update - begin_time and clock >= 0 in
\* every such state; the clock is 0 immediately after a repair and
\* afterwards measures the time since the last update_clock (or init_clock)
\* before that repair: the repair sets begin_time to last_time_update, not
\* to the time of the repair.
C28_ClockSinceUpdate ==
    /\ [](ClockFromBegin(disk) /\ ClockFromBegin(node))
    /\ [][/\ RepairZeroesClock
          /\ dop' = "repair_disk" => disk'.begin_time = disk.last_time_update
          /\ dop' = "repair_node" => node'.begin_time = node.last_time_update]_vars

\* a CRASHED disk has just been repaired at a time later than its last
\* clock update
C28_Witness ==
    /\ dop = "repair_disk"
    /\ was = STATE_CRASHED
    /\ disk.clock = 0
    /\ disk.begin_time = disk.last_time_update
    /\ disk.begin_time < now
    /\ disk.begin_time > 0

\* the main program has got past get_parms and has decided on its gates
Started ==
    \/ prog.pc = "mapping"
    \/ prog.pc = "exited"
         /\ prog.at \in {"capacity", "bandwidth", "pool", "divisible", "map", "end"}

\* the capacity of all disks and the capacity the stripes need
TotalCap ==
    prog.parms.capacity_per_disk * prog.parms.num_racks
      * prog.parms.nodes_per_rack * prog.parms.disks_per_node
RealCap == prog.parms.code_n * prog.parms.num_stripes * prog.parms.chunk_size

\* the seed of every shard that ran do_it is in both generators
ShardsSeeded ==
    \A i \in DOMAIN prog.results :
        prog.results[i] # None =>
            /\ prog.results[i][1].exc = ""
            /\ prog.results[i][1].nprandom = Some(prog.parms.rseed_plus + i - 1)
            /\ prog.results[i][1].random = Some(prog.parms.rseed_plus + i - 1)

ShardsSplit ==
    /\ Len(prog.jobs) = prog.parms.num_processes
    /\ \A i \in DOMAIN prog.jobs :
          /\ prog.jobs[i][1] * prog.parms.num_processes = prog.parms.total_iterations
          /\ prog.jobs[i][2] = prog.parms.rseed_plus + i - 1
    /\ \A i, j \in DOMAIN prog.jobs : i # j => prog.jobs[i][2] # prog.jobs[j][2]

\* C22: total_iterations is split into num_processes shards of
\* total_iterations / num_processes iterations, shard i has seed
\* rseed_plus + i, the seeds are pairwise distinct, and every shard seeds both
\* generators with its seed before the simulation object is built.
C22_ShardsAndSeeds ==
    prog.jobs # <<>> => (ShardsSplit /\ ShardsSeeded)

\* a start-up gate fails: cross-rack above intra-rack bandwidth,
\* total_iterations not a multiple of num_processes, or capacity too small
GateFails ==
    \/ prog.parms.network_setting[1] > prog.parms.network_setting[2]
    \/ /\ prog.parms.num_processes # 0
       /\ prog.parms.total_iterations
             % (IF prog.parms.num_processes < 0 THEN 0 - prog.parms.num_processes
                ELSE prog.parms.num_processes) # 0
    \/ TotalCap < RealCap

\* C23: when a start-up gate fails the program exits with code 2 and do_it
\* is never invoked; no job is dispatched unless every gate has passed.
C23_GatesBeforeDispatch ==
    (Started /\ GateFails) =>
        /\ prog.pc = "exited"
        /\ prog.code = Some(2)
        /\ prog.jobs = <<>>
        /\ prog.results = <<>>

\* C24: the capacity gate accepts exactly when the total capacity is at least
\* the capacity needed, equality included, and exits with code 2 otherwise;
\* the default configuration is accepted.
C24_CapacityGate ==
    Started =>
        /\ prog.at = "capacity" <=> ~(TotalCap >= RealCap)
        /\ prog.at = "capacity" => prog.code = Some(2)
        /\ prog.parms = Defaults => prog.at # "capacity"

\* a run past the capacity gate with the capacities equal
C24_Witness ==
    /\ prog.pc = "mapping"
    /\ TotalCap = RealCap
    /\ prog.at # "capacity"

\* the command line has an option the parser rejects, no option at all, or
\* an unrecognised value for -t, -T or -A
BadCommandLine ==
    \/ Len(prog.argv) = 0
    \/ \E i \in 1..Len(prog.argv) :
          \/ prog.argv[i][1] \notin ShortOpts
          \/ prog.argv[i][1] = "-t" /\ prog.argv[i][2] \notin {"rs", "lrc", "drc"}
          \/ prog.argv[i][1] = "-T" /\ prog.argv[i][2] \notin {"flat", "hie"}
          \/ prog.argv[i][1] = "-A" /\ prog.argv[i][2] \notin {"regular", "unifbfb"}

\* C25: every parse or configuration error of the command line ends the
\* program with exit code 2 and never leads to a run with defaults
\* substituted; command lines with -h or a non-numeric integer argument are
\* left aside.
C25_ParseErrorsExit2 ==
    (/\ prog.pc # "start"
     /\ BadCommandLine
     /\ \A i \in 1..Len(prog.argv) : prog.argv[i][1] # "-h" /\ prog.argv[i][2] # "x")
        => /\ prog.pc = "exited"
           /\ prog.code = Some(2)
           /\ prog.jobs = <<>>

====
